---- MODULE Spec2Model ----
(***************************************************************************)
(* Control-plane task dispatch (master/admin_task_sender.go), tiny-extent  *)
(* release hook (datanode, DataNode.releaseExtent) and the data-node space *)
(* manager (datanode/space_manager.go) as state machines.                  *)
(***************************************************************************)
EXTENDS Integers, Sequences, FiniteSets, TLC

None == "none"

Range(f) == {f[x] : x \in DOMAIN f}

\* All orders in which a map iteration can visit the members of S.
Perms(S) == {s \in [1..Cardinality(S) -> S] : \A i, j \in DOMAIN s : i # j => s[i] # s[j]}

Min(a, b) == IF a < b THEN a ELSE b

VARIABLES
    TaskMap,     \* sender.TaskMap: task ID -> task object (or None)
    task,        \* the task objects' fields Status, SendCount, SendTime
    now,         \* time.Now().Unix()
    exitCh,      \* a signal is pending on sender.exitCh
    pc,          \* position of the process() goroutine
    delTasks,    \* doDeleteTasks: tasks of the snapshot still to delete
    tasks,       \* doSendTasks: the batch returned by getNeedDealTask
    idx,         \* sendTasks: index of the next task of the batch
    wakeAt,      \* doSendTasks: end of time.Sleep(time.Second)
    sendLog,     \* history: this tick's GetConnect attempts, in order
    pre,         \* history: the tasks' fields when this tick's batch was assembled
    evicted,     \* history: tasks found timed out at a tick and not put since
    firstPut,    \* history: earliest PutTask per ID since the last DelTask of it
    dropped,     \* history: the tasks whose PutTask found their ID registered
    used,        \* the task objects already handed to PutTask
    live,        \* the task objects the producers of this run hold
    ready,       \* getNeedDealTask by numbers: the map's ready tasks per class
    appended,    \* getNeedDealTask by numbers: the tasks appended per class
    left,        \* getNeedDealTask by numbers: entries its third loop has yet to visit
    phase,       \* getNeedDealTask by numbers: the loop it is in
    lenBefore    \* history: len(tasks) before the last append of a normal task

varsSender == <<live, used, TaskMap, task, now, exitCh, pc, delTasks, tasks, idx, wakeAt,
                sendLog, pre, evicted, firstPut, dropped, ready, appended, left, phase,
                lenBefore>>

varsBatch == <<ready, appended, left, phase, lenBefore>>

VARIABLES
    pkg,          \* the packet under post-processing
    IsRelase,     \* pkg.IsRelase
    avaliCh,      \* the store's queue of available tiny extents
    unavaliCh,    \* the store's queue of unavailable tiny extents
    pcR,          \* position of each goroutine in Post
    posts         \* calls of Post started so far

varsRelease == <<pkg, IsRelase, avaliCh, unavaliCh, pcR, posts>>

VARIABLES
    disks,              \* space.disks: path -> Disk object (0: no entry)
    diskList,           \* space.diskList
    diskObjs,           \* the Disk objects built by NewDisk, each with its path
    partitions,         \* space.partitions: partition id -> DataPartition (0: no entry)
    dps,                \* the DataPartition objects built so far: id, disk, builder
    chooseIndex,        \* space.chooseIndex
    createPartitionMu,  \* holder of space.createPartitionMu (None: free)
    onDisk,             \* the partition directories present on the disks: <<path, id>>
    attached,           \* the partitions attached to their Disk object
    stopped,            \* the partitions whose Stop() has run
    pcS,                \* position of each caller of the space manager
    opS,                \* the call each caller is in (or was in last)
    loc,                \* the call's local variables
    retS,               \* what the caller's last call returned
    calls,              \* calls started so far
    restoreRuns,        \* history: runs of Disk.RestorePartition per path
    picks,              \* history: paths getMinPartitionCntDisk returned since putDisk
    stopC,              \* space.stopC is closed
    schedPc,            \* position of each background scheduler goroutine
    pcStop,             \* position of each caller of Stop
    stopRet,            \* how the caller's last Stop ended
    stops,              \* calls of Stop started so far
    locks,              \* the locks of the space manager: writer and readers
    lockOp              \* the lock operations each goroutine's call has yet to do

varsSpace == <<disks, diskList, diskObjs, partitions, dps, chooseIndex, createPartitionMu,
               onDisk, attached, stopped, pcS, opS, loc, retS, calls, restoreRuns,
               picks, stopC, schedPc, pcStop, stopRet, stops, locks, lockOp>>

varsLocks == <<locks, lockOp>>

varsStop == <<stopC, schedPc, pcStop, stopRet, stops>>

vars == <<varsSender, varsRelease, varsSpace>>

(***************************************************************************)
(*                        A D M I N   T A S K   S E N D E R                *)
(***************************************************************************)

\* Bounds of the sender model.
MaxTime == 3

\* admin_task_sender.go:32
MaxTaskLen == 30

\* proto.AdminTask predicates' parameters (proto package, outside src/).
ResendInterval == 1
TaskTimeout == 2
MaxSends == 2

\* The task objects callers hand to PutTask.  "n1" and "n3" carry the same ID.
Tasks == {"h1", "u1", "n1", "n2", "n3"}

TaskID(t) == IF t = "n3" THEN "n1" ELSE t

TaskIDs == {TaskID(t) : t \in Tasks}

\* proto.AdminTask.IsHeartbeatTask / IsUrgentTask: three classes by opcode.
IsHeartbeatTask(t) == t = "h1"

IsUrgentTask(t) == t = "u1"

TaskPending == "pending"

TaskRunning == "running"

\* proto.AdminTask.CheckTaskNeedSend
CheckTaskNeedSend(t) ==
    \/ task[t].Status = TaskPending
    \/ task[t].Status = TaskRunning /\ now - task[t].SendTime >= ResendInterval

\* proto.AdminTask.CheckTaskTimeOut
CheckTaskTimeOut(t) ==
    \/ task[t].SendCount >= MaxSends
    \/ task[t].SendTime > 0 /\ now - task[t].SendTime >= TaskTimeout

Registered == Range(TaskMap) \ {None}

NewTask == [Status |-> TaskPending, SendCount |-> 0, SendTime |-> 0]

NoTasks == [t \in Tasks |-> NewTask]

\* The heap keeps the fields of the task objects the sender still refers to (from
\* its map, from the snapshot of doDeleteTasks or from the batch); an object that
\* is referred to no more is garbage, and its fields are dropped.
Heap(fields, map, snapshot, batch) ==
    [t \in Tasks |->
        IF t \in (Range(map) \cup snapshot \cup Range(batch)) THEN fields[t] ELSE NewTask]

\* The producers' tasks: one of each class, or normal tasks only (two of them
\* under the same ID).
MixedTasks == {"h1", "u1", "n1"}

NormalTasks == {"n1", "n2", "n3"}

InitSender ==
    /\ live \in {MixedTasks, NormalTasks}
    /\ used = {}
    /\ TaskMap = [i \in TaskIDs |-> None]
    /\ task = NoTasks
    /\ now = 1
    /\ exitCh = FALSE
    /\ pc = "select"
    /\ delTasks = {}
    /\ tasks = <<>>
    /\ idx = 1
    /\ wakeAt = 0
    /\ sendLog = <<>>
    /\ pre = NoTasks
    /\ evicted = {}
    /\ firstPut = [i \in TaskIDs |-> None]
    /\ dropped = {}
    /\ ready = [hb |-> 0, ur |-> 0, nm |-> 0]
    /\ appended = [hb |-> 0, ur |-> 0, nm |-> 0]
    /\ left = [nm |-> 0, other |-> 0]
    /\ phase = "none"
    /\ lenBefore = 0

\* Mutant of PutTaskMap: the entry of a registered ID is overwritten.
PutTaskMapOverwrite(t) == [TaskMap EXCEPT ![TaskID(t)] = t]

\* The registry after PutTask(t): insert if the ID is absent.
PutTaskMap(t) ==
    IF TaskMap[TaskID(t)] = None THEN [TaskMap EXCEPT ![TaskID(t)] = t] ELSE TaskMap

\* The registry after DelTask(t): remove the entry of t's ID if present.
DelTaskMap(t) ==
    IF TaskMap[TaskID(t)] = None THEN TaskMap ELSE [TaskMap EXCEPT ![TaskID(t)] = None]

\* PutTask called by the master's task producers.
PutTask(t) ==
    /\ t \notin used
    /\ used' = used \cup {t}
    /\ TaskMap' = PutTaskMap(t)
    /\ firstPut' = IF firstPut[TaskID(t)] = None
                   THEN [firstPut EXCEPT ![TaskID(t)] = t] ELSE firstPut
    /\ dropped' = IF TaskMap[TaskID(t)] = None THEN dropped ELSE dropped \cup {t}
    /\ UNCHANGED <<varsBatch, varsRelease, varsSpace, live, task, now, exitCh, pc, delTasks, tasks, idx, wakeAt,
                   sendLog, pre, evicted>>

\* DelTask called by the reply handler.
DelTask(t) ==
    /\ TaskMap' = DelTaskMap(t)
    /\ firstPut' = [firstPut EXCEPT ![TaskID(t)] = None]
    /\ task' = Heap(task, TaskMap', delTasks, tasks)
    /\ UNCHANGED <<varsBatch, varsRelease, varsSpace, dropped, live, used, now, exitCh, pc, delTasks, tasks, idx, wakeAt,
                   sendLog, pre, evicted>>

AdvanceTime ==
    /\ now < MaxTime
    /\ now' = now + 1
    /\ UNCHANGED <<varsBatch, varsRelease, varsSpace, dropped, live, used, TaskMap, task, exitCh, pc, delTasks, tasks, idx, wakeAt,
                   sendLog, pre, evicted, firstPut>>

\* The owner of the sender signals exitCh.
SignalExit ==
    /\ ~exitCh
    /\ exitCh' = TRUE
    /\ UNCHANGED <<varsBatch, varsRelease, varsSpace, dropped, live, used, TaskMap, task, now, pc, delTasks, tasks, idx, wakeAt,
                   sendLog, pre, evicted, firstPut>>

\* process(): case <-sender.exitCh
ProcExit ==
    /\ pc = "select"
    /\ exitCh
    /\ pc' = "stopped"
    /\ UNCHANGED <<varsBatch, varsRelease, varsSpace, dropped, live, used, TaskMap, task, now, exitCh, delTasks, tasks, idx, wakeAt,
                   sendLog, pre, evicted, firstPut>>

\* Mutant of NeedDeleteTasks: only the tasks that were sent (those warned about).
NeedDeleteTasksSentOnly ==
    {t \in Registered : task[t].SendTime > 0 /\ CheckTaskTimeOut(t)}

\* getNeedDeleteTasks: the registered tasks that are timed out.
NeedDeleteTasks == {t \in Registered : CheckTaskTimeOut(t)}

\* process(): case <-ticker.C, up to the snapshot taken by getNeedDeleteTasks.
ProcTick ==
    /\ pc = "select"
    /\ delTasks' = NeedDeleteTasks
    /\ evicted' = evicted \cup {t \in Registered : CheckTaskTimeOut(t)}
    /\ pc' = "delete"
    /\ UNCHANGED <<varsBatch, varsRelease, varsSpace, dropped, live, used, TaskMap, task, now, exitCh, wakeAt, firstPut, pre, tasks,
                   idx, sendLog>>

\* doDeleteTasks: one iteration of the loop over delTasks, or its end.
ProcDelete ==
    /\ pc = "delete"
    /\ \/ /\ delTasks = {}
          /\ pc' = "assemble"
          /\ UNCHANGED <<TaskMap, delTasks, firstPut>>
       \/ \E t \in delTasks :
            /\ TaskMap' = DelTaskMap(t)
            /\ firstPut' = [firstPut EXCEPT ![TaskID(t)] = None]
            /\ delTasks' = delTasks \ {t}
            /\ pc' = pc
    /\ task' = Heap(task, TaskMap', delTasks', tasks)
    /\ UNCHANGED <<varsBatch, varsRelease, varsSpace, dropped, live, used, now, exitCh, tasks, idx, wakeAt, sendLog, pre,
                   evicted>>

\* Mutant of NeedDealBatches: the normal tasks are collected first.
NeedDealBatchesNormalFirst ==
    LET hb == {t \in Registered : IsHeartbeatTask(t) /\ CheckTaskNeedSend(t)}
        ur == {t \in Registered : IsUrgentTask(t) /\ CheckTaskNeedSend(t)}
        nm == {t \in Registered : ~IsHeartbeatTask(t) /\ ~IsUrgentTask(t)
                                    /\ CheckTaskNeedSend(t)}
    IN {c \o a \o b : a \in Perms(hb), b \in Perms(ur), c \in Perms(nm)}

\* getNeedDealTask: the batches it can return (map iteration order is free).
NeedDealBatches ==
    LET hb == {t \in Registered : IsHeartbeatTask(t) /\ CheckTaskNeedSend(t)}
        ur == {t \in Registered : IsUrgentTask(t) /\ CheckTaskNeedSend(t)}
        nm == {t \in Registered : ~IsHeartbeatTask(t) /\ ~IsUrgentTask(t)
                                    /\ CheckTaskNeedSend(t)}
        base == Cardinality(hb) + Cardinality(ur)
        \* the loop over the map stops once len(tasks) > MaxTaskLen
        room == IF base > MaxTaskLen THEN 1 ELSE MaxTaskLen + 1 - base
        cs == {SubSeq(p, 1, k) : p \in Perms(nm),
                                 k \in IF base > MaxTaskLen
                                       THEN {0, Min(1, Cardinality(nm))}
                                       ELSE {Min(Cardinality(nm), room)}}
    IN {a \o b \o c : a \in Perms(hb), b \in Perms(ur), c \in cs}

\* getNeedDealTask marks the heartbeat and urgent tasks it returns.
MarkedBySnapshot(batch) ==
    [t \in Tasks |->
        IF t \in Range(batch) /\ (IsHeartbeatTask(t) \/ IsUrgentTask(t))
        THEN [task[t] EXCEPT !.SendTime = now, !.SendCount = @ + 1]
        ELSE task[t]]

\* doSendTasks up to the call of sendTasks.
ProcAssemble ==
    /\ pc = "assemble"
    /\ \E batch \in NeedDealBatches :
        /\ tasks' = batch
        /\ task' = MarkedBySnapshot(batch)
        /\ IF Len(batch) = 0
           THEN pc' = "sleep" /\ wakeAt' = now + 1
           ELSE pc' = "send" /\ wakeAt' = wakeAt
        /\ pre' = IF Len(batch) = 0 THEN NoTasks ELSE task
    /\ idx' = 1
    /\ UNCHANGED <<varsBatch, varsRelease, varsSpace, dropped, live, used, TaskMap, now, exitCh, delTasks, sendLog, evicted,
                   firstPut>>

\* doSendTasks: time.Sleep(time.Second) is over.
ProcWake ==
    /\ pc = "sleep"
    /\ now >= wakeAt
    /\ pc' = "select"
    /\ wakeAt' = 0
    /\ UNCHANGED <<varsBatch, varsRelease, varsSpace, dropped, live, used, TaskMap, task, now, exitCh, delTasks, tasks, idx,
                   sendLog, pre, evicted, firstPut>>

\* What GetConnect and sendAdminTask can do for one task.
Outcomes == {"connErr", "buildErr", "writeErr", "readErr", "ok"}

\* Mutant of updateTaskInfo: connSuccess is ignored.
updateTaskInfoAlways(t, connSuccess) ==
    [task EXCEPT ![t] = [Status |-> TaskRunning, SendCount |-> @.SendCount + 1,
                         SendTime |-> now]]

\* Mutant of updateTaskInfo: a failed connection acquisition is not counted.
updateTaskInfoConnOnly(t, connSuccess) ==
    IF connSuccess
    THEN [task EXCEPT ![t] = [Status |-> TaskRunning, SendCount |-> @.SendCount + 1,
                              SendTime |-> now]]
    ELSE task

\* updateTaskInfo(task, connSuccess)
updateTaskInfo(t, connSuccess) ==
    IF connSuccess
    THEN [task EXCEPT ![t] = [Status |-> TaskRunning, SendCount |-> @.SendCount + 1,
                              SendTime |-> now]]
    ELSE [task EXCEPT ![t].SendCount = @ + 1]

\* Mutant of LoopContinues: a connection error does not end the loop.
LoopContinuesAlways(out) == out \in Outcomes

\* Mutant of LoopContinues: any error ends the loop.
LoopContinuesOnSuccess(out) == out = "ok"

\* sendTasks: whether the loop goes on to the next task after this outcome.
LoopContinues(out) == out # "connErr"

\* sendTasks: force_close of the PutConnect that follows this outcome.
ForceClose(out) == out # "ok"

\* sendTasks: one iteration of the loop over the batch.
ProcSend ==
    /\ pc = "send"
    /\ \E out \in Outcomes :
        LET t == tasks[idx] IN
        /\ task' = updateTaskInfo(t, out # "connErr")
        /\ sendLog' = Append(sendLog, [task |-> t, out |-> out, at |-> now,
                                       forceClose |-> ForceClose(out)])
        /\ IF LoopContinues(out) /\ idx < Len(tasks)
           THEN pc' = pc /\ idx' = idx + 1
           ELSE pc' = "sent" /\ idx' = idx
    /\ UNCHANGED <<varsBatch, varsRelease, varsSpace, dropped, live, used, TaskMap, now, exitCh, delTasks, tasks, wakeAt, pre,
                   evicted, firstPut>>

\* sendTasks and doSendTasks return; process() is back at its select.
ProcReturn ==
    /\ pc = "sent"
    /\ pc' = "select"
    /\ tasks' = <<>>
    /\ idx' = 1
    /\ sendLog' = <<>>
    /\ task' = Heap(task, TaskMap, delTasks, <<>>)
    /\ pre' = NoTasks
    /\ UNCHANGED <<varsBatch, varsRelease, varsSpace, dropped, live, used, TaskMap, now, exitCh, delTasks, wakeAt,
                   evicted, firstPut>>

(* getNeedDealTask by numbers.  The registry of the runs above holds three     *)
(* tasks at most, far from MaxTaskLen; here the tasks are counted per class,   *)
(* so that the registry can hold more than MaxTaskLen ready tasks.             *)

\* Bounds: the ready heartbeat, urgent and normal tasks in the registry.
MaxHeartbeats == 31
MaxUrgents == 1
MaxNormals == 32

\* len(tasks)
BatchLen == appended.hb + appended.ur + appended.nm

\* getNeedDealTask is called on a registry with these numbers of ready tasks.
AssembleStart ==
    /\ phase = "none"
    /\ \E h \in 0..MaxHeartbeats, u \in 0..MaxUrgents, n \in 0..MaxNormals :
        ready' = [hb |-> h, ur |-> u, nm |-> n]
    /\ phase' = "heartbeat"
    /\ UNCHANGED <<appended, left, lenBefore>>
    /\ UNCHANGED <<live, used, TaskMap, task, now, exitCh, pc, delTasks, tasks, idx,
                   wakeAt, sendLog, pre, evicted, firstPut, dropped, varsRelease,
                   varsSpace>>

\* getNeedDealTask: the first loop appends every ready heartbeat task.
AssembleHeartbeats ==
    /\ phase = "heartbeat"
    /\ appended' = [appended EXCEPT !.hb = ready.hb]
    /\ phase' = "urgent"
    /\ UNCHANGED <<ready, left, lenBefore>>
    /\ UNCHANGED <<live, used, TaskMap, task, now, exitCh, pc, delTasks, tasks, idx,
                   wakeAt, sendLog, pre, evicted, firstPut, dropped, varsRelease,
                   varsSpace>>

\* getNeedDealTask: the second loop appends every ready urgent task; the third
\* loop has every entry of the map to visit.
AssembleUrgents ==
    /\ phase = "urgent"
    /\ appended' = [appended EXCEPT !.ur = ready.ur]
    /\ left' = [nm |-> ready.nm, other |-> ready.hb + ready.ur]
    /\ phase' = "normal"
    /\ UNCHANGED <<ready, lenBefore>>
    /\ UNCHANGED <<live, used, TaskMap, task, now, exitCh, pc, delTasks, tasks, idx,
                   wakeAt, sendLog, pre, evicted, firstPut, dropped, varsRelease,
                   varsSpace>>

\* getNeedDealTask: one turn of the third loop: the entry visited is appended if
\* it is a ready normal task, and then the loop breaks if
\* len(tasks) > MaxTaskLen; the loop ends when no entry is left.
AssembleNormal ==
    /\ phase = "normal"
    /\ IF left.nm + left.other = 0
       THEN /\ phase' = "done"
            /\ UNCHANGED <<appended, left, lenBefore>>
       ELSE \E normal \in {b \in BOOLEAN : IF b THEN left.nm > 0 ELSE left.other > 0} :
            LET len == IF normal THEN BatchLen + 1 ELSE BatchLen IN
            /\ appended' = IF normal THEN [appended EXCEPT !.nm = @ + 1] ELSE appended
            /\ lenBefore' = IF normal THEN BatchLen ELSE lenBefore
            /\ left' = IF normal THEN [left EXCEPT !.nm = @ - 1]
                                 ELSE [left EXCEPT !.other = @ - 1]
            /\ phase' = IF len > MaxTaskLen THEN "done" ELSE "normal"
    /\ UNCHANGED ready
    /\ UNCHANGED <<live, used, TaskMap, task, now, exitCh, pc, delTasks, tasks, idx,
                   wakeAt, sendLog, pre, evicted, firstPut, dropped, varsRelease,
                   varsSpace>>

NextBatch ==
    \/ AssembleStart
    \/ AssembleHeartbeats
    \/ AssembleUrgents
    \/ AssembleNormal

\* PutTask called again by a producer for a task that was evicted: a new task
\* object of the same ID and opcode (the periodic tasks of the master, such as
\* heartbeats, are put again and again).
PutTaskAgain(t) ==
    /\ t \in used
    /\ t \notin Registered \cup delTasks \cup Range(tasks)
    /\ TaskMap' = PutTaskMap(t)
    /\ firstPut' = IF firstPut[TaskID(t)] = None
                   THEN [firstPut EXCEPT ![TaskID(t)] = t] ELSE firstPut
    /\ dropped' = IF TaskMap[TaskID(t)] = None THEN dropped ELSE dropped \cup {t}
    /\ evicted' = evicted \ {t}
    /\ UNCHANGED <<varsBatch, varsRelease, varsSpace, live, used, task, now, exitCh, pc,
                   delTasks, tasks, idx, wakeAt, sendLog, pre>>

\* The sender with its producers, no reply handler and no exit signal.
NextLive ==
    \/ \E t \in live : PutTask(t)
    \/ \E t \in live : PutTaskAgain(t)
    \/ AdvanceTime
    \/ ProcTick
    \/ ProcDelete
    \/ ProcAssemble
    \/ ProcWake
    \/ ProcSend
    \/ ProcReturn

\* The ticker keeps firing, every step of the loop returns, and time passes.
FairLive ==
    /\ WF_vars(AdvanceTime)
    /\ WF_vars(ProcTick)
    /\ WF_vars(ProcDelete)
    /\ WF_vars(ProcAssemble)
    /\ WF_vars(ProcWake)
    /\ WF_vars(ProcSend)
    /\ WF_vars(ProcReturn)

NextSender ==
    \/ \E t \in live : PutTask(t)
    \/ \E t \in live : DelTask(t)
    \/ AdvanceTime
    \/ SignalExit
    \/ ProcExit
    \/ ProcTick
    \/ ProcDelete
    \/ ProcAssemble
    \/ ProcWake
    \/ ProcSend
    \/ ProcReturn

(***************************************************************************)
(*                     E X T E N T   R E L E A S E   H O O K               *)
(***************************************************************************)

\* Bound: calls of Post on the packet.
MaxPosts == 3

\* The goroutines that may run Post on the same packet.
Posters == {"g1", "g2"}

\* storage.IsTinyExtent
TinyExtentIDs == {1}

IsTinyExtent(extentID) == extentID \in TinyExtentIDs

TinyExtentMode == "tiny"

NormalExtentMode == "normal"

HasReturnToStore == "returned"

NotReturned == "unset"

\* The packets Post can be given (the fields cleanupPkg and releaseExtent read).
Packets ==
    [IsMasterCommand : BOOLEAN, isLeaderPacket : BOOLEAN,
     ExtentMode : {TinyExtentMode, NormalExtentMode}, ExtentID : {0, 1, 2},
     isWriteOperation : BOOLEAN, IsForwardPkg : BOOLEAN, HasObject : BOOLEAN,
     IsErrPacket : BOOLEAN]

InitRelease ==
    /\ pkg \in Packets
    /\ IsRelase = NotReturned
    /\ avaliCh = <<>>
    /\ unavaliCh = <<>>
    /\ pcR = [g \in Posters |-> "idle"]
    /\ posts = 0

\* cleanupPkg: the packet reaches releaseExtent.
CleanupReleases == ~pkg.IsMasterCommand /\ pkg.isLeaderPacket

\* Mutant of ReleaseChecks: only the checks of line 43 are made.
ReleaseChecksModeOnly ==
    /\ pkg.ExtentMode = TinyExtentMode
    /\ pkg.isLeaderPacket
    /\ pkg.isWriteOperation
    /\ pkg.IsForwardPkg

\* releaseExtent: the checks of the packet's own fields (the flag apart).
ReleaseChecks ==
    /\ IsTinyExtent(pkg.ExtentID)
    /\ pkg.ExtentID > 0
    /\ pkg.ExtentMode = TinyExtentMode
    /\ pkg.isLeaderPacket
    /\ pkg.isWriteOperation
    /\ pkg.IsForwardPkg
    /\ pkg.HasObject

\* Post, cleanupPkg and releaseExtent up to the atomic load of pkg.IsRelase.
PostLoad(g) ==
    /\ pcR[g] = "idle"
    /\ posts < MaxPosts
    /\ posts' = posts + 1
    /\ pcR' = [pcR EXCEPT ![g] =
                 IF CleanupReleases /\ IsRelase # HasReturnToStore /\ ReleaseChecks
                 THEN "enqueue" ELSE "idle"]
    /\ UNCHANGED <<pkg, IsRelase, avaliCh, unavaliCh, varsSender, varsSpace>>

\* releaseExtent: PutTinyExtentToUnavaliCh or PutTinyExtentToAvaliCh.
PostEnqueue(g) ==
    /\ pcR[g] = "enqueue"
    /\ IF pkg.IsErrPacket
       THEN unavaliCh' = Append(unavaliCh, pkg.ExtentID) /\ avaliCh' = avaliCh
       ELSE avaliCh' = Append(avaliCh, pkg.ExtentID) /\ unavaliCh' = unavaliCh
    /\ pcR' = [pcR EXCEPT ![g] = "store"]
    /\ UNCHANGED <<pkg, IsRelase, posts, varsSender, varsSpace>>

\* releaseExtent: atomic.StoreInt32(&pkg.IsRelase, HasReturnToStore)
PostStore(g) ==
    /\ pcR[g] = "store"
    /\ IsRelase' = HasReturnToStore
    /\ pcR' = [pcR EXCEPT ![g] = "idle"]
    /\ UNCHANGED <<pkg, avaliCh, unavaliCh, posts, varsSender, varsSpace>>

NextRelease ==
    \/ \E g \in Posters : PostLoad(g)
    \/ \E g \in Posters : PostEnqueue(g)
    \/ \E g \in Posters : PostStore(g)

(***************************************************************************)
(*                          S P A C E   M A N A G E R                      *)
(***************************************************************************)

\* Bound: calls of CreatePartition, DeletePartition and LoadDisk.
MaxCalls == 4

\* The goroutines calling into the space manager.
Callers == {"p1", "p2"}

PartitionIds == {1, 2}

Paths == {"d1", "d2"}

\* Disk.Available of the disk at each path, and the sizes requested.
Available(path) == IF path = "d1" THEN 100 ELSE 50

PartitionSizes == {40, 80, 200}

NoOp == [kind |-> "none", id |-> 0, size |-> 0, path |-> "none"]

NoLocals == [dp |-> 0, disk |-> 0, i |-> 0, todo |-> {}]

NoReturn == [dp |-> 0, err |-> "none", stopped |-> FALSE]

\* NewSpaceManager; the disks may hold partition directories of an earlier run.
\* Bound: calls of Stop.
MaxStops == 3

\* The goroutines that may call Stop.
Stoppers == {"s1", "s2"}

\* statUpdateScheduler and flushDeleteScheduler, started by NewSpaceManager.
Schedulers == {"stat", "flush"}

\* spaceManager.diskMu, partitionMu, createPartitionMu and the lock of Stats.
LockNames == {"diskMu", "partitionMu", "createPartitionMu", "stats"}

\* The goroutines that call into the space manager; each may be a caller, a
\* scheduler or the heartbeat handler.
Threads == {"t1", "t2"}

\* A sync.RWMutex nobody holds or waits for.
FreeLock == [writer |-> None, granted |-> FALSE, readers |-> [t \in Threads |-> 0]]

\* No goroutine is in a call, and every lock is free.
InitLocks ==
    /\ locks = [m \in LockNames |-> FreeLock]
    /\ lockOp = [t \in Threads |-> <<>>]

InitSpace ==
    /\ disks = [path \in Paths |-> 0]
    /\ diskList = <<>>
    /\ diskObjs = <<>>
    /\ partitions = [id \in PartitionIds |-> 0]
    /\ dps = <<>>
    /\ chooseIndex = 0
    /\ createPartitionMu = None
    /\ onDisk \in {{}, {<<"d1", 1>>}}
    /\ attached = {}
    /\ stopped = {}
    /\ pcS = [p \in Callers |-> "idle"]
    /\ opS = [p \in Callers |-> NoOp]
    /\ loc = [p \in Callers |-> NoLocals]
    /\ retS = [p \in Callers |-> NoReturn]
    /\ calls = 0
    /\ restoreRuns = [path \in Paths |-> 0]
    /\ picks = <<>>
    /\ stopC = FALSE
    /\ schedPc = [s \in Schedulers |-> "select"]
    /\ pcStop = [p \in Stoppers |-> "idle"]
    /\ stopRet = [p \in Stoppers |-> "none"]
    /\ stops = 0
    /\ InitLocks

\* The call returns: its locals go, createPartitionMu is released if held.
Return(p, dp, err) ==
    /\ pcS' = [pcS EXCEPT ![p] = "idle"]
    /\ loc' = [loc EXCEPT ![p] = NoLocals]
    /\ retS' = [retS EXCEPT ![p] = [dp |-> dp, err |-> err, stopped |-> dp \in stopped]]
    /\ createPartitionMu' = IF createPartitionMu = p THEN None ELSE createPartitionMu

\* The on-disk directory of a partition: DataPartition.Path().
PathOf(dp) == <<diskObjs[dps[dp].disk].path, dps[dp].id>>

\* CreatePartition: createPartitionMu.Lock() and the request's configuration.
CreateLock(p, id, size) ==
    /\ pcS[p] = "idle"
    /\ calls < MaxCalls
    /\ createPartitionMu = None
    /\ createPartitionMu' = p
    /\ calls' = calls + 1
    /\ opS' = [opS EXCEPT ![p] = [kind |-> "create", id |-> id, size |-> size,
                                  path |-> "none"]]
    /\ retS' = [retS EXCEPT ![p] = NoReturn]
    /\ pcS' = [pcS EXCEPT ![p] = "c_lookup"]
    /\ UNCHANGED <<disks, diskList, diskObjs, partitions, dps, chooseIndex, onDisk,
                   attached, stopped, loc, restoreRuns, picks,
                   varsStop, varsLocks, varsSender, varsRelease>>

\* Mutant of ExistingPartition: the lookup of the id is skipped.
ExistingPartitionSkipped(id) == 0

\* CreatePartition: dp = space.partitions[dpCfg.PartitionId]
ExistingPartition(id) == partitions[id]

\* CreatePartition: the lookup of the id.
CreateLookup(p) ==
    /\ pcS[p] = "c_lookup"
    /\ LET dp == ExistingPartition(opS[p].id) IN
        /\ loc' = [loc EXCEPT ![p].dp = dp]
        /\ pcS' = [pcS EXCEPT ![p] = IF dp # 0 THEN "c_found" ELSE "c_choose"]
    /\ UNCHANGED <<disks, diskList, diskObjs, partitions, dps, chooseIndex,
                   createPartitionMu, onDisk, attached, stopped, opS, retS, calls,
                   restoreRuns, picks,
                   varsStop, varsLocks, varsSender, varsRelease>>

\* CreatePartition: if dp != nil { return }, the existing handle.
CreateFound(p) ==
    /\ pcS[p] = "c_found"
    /\ Return(p, loc[p].dp, "none")
    /\ UNCHANGED <<disks, diskList, diskObjs, partitions, dps, chooseIndex, onDisk,
                   attached, stopped, opS, calls, restoreRuns, picks,
                   varsStop, varsLocks, varsSender, varsRelease>>

\* getMinPartitionCntDisk: the index it reads diskList at.
ChosenIndex == IF chooseIndex >= Len(diskList) THEN 0 ELSE chooseIndex

\* CreatePartition: one turn of the loop over the disks, or the loop's end.
CreateChoose(p) ==
    /\ pcS[p] = "c_choose"
    /\ IF loc[p].i < Cardinality({path \in Paths : disks[path] # 0})
       THEN LET path == diskList[ChosenIndex + 1]
                fits == Available(path) >= opS[p].size
            IN /\ chooseIndex' = ChosenIndex + 1
               /\ picks' = Append(picks, path)
               /\ IF fits
                  THEN /\ loc' = [loc EXCEPT ![p].disk = disks[path]]
                       /\ pcS' = [pcS EXCEPT ![p] = "c_build"]
                  ELSE /\ loc' = [loc EXCEPT ![p].disk = 0, ![p].i = @ + 1]
                       /\ pcS' = pcS
               /\ UNCHANGED <<retS, createPartitionMu>>
       ELSE /\ Return(p, 0, "NoDiskForCreatePartition")
            /\ UNCHANGED <<chooseIndex, picks>>
    /\ UNCHANGED <<disks, diskList, diskObjs, partitions, dps, onDisk, attached,
                   stopped, opS, calls, restoreRuns, varsStop, varsLocks, varsSender, varsRelease>>

\* CreatePartition: CreateDataPartition(dpCfg, disk) builds the partition or fails.
CreateBuild(p) ==
    /\ pcS[p] = "c_build"
    /\ \/ /\ dps' = Append(dps, [id |-> opS[p].id, disk |-> loc[p].disk, by |-> p])
          /\ onDisk' = onDisk \cup {<<diskObjs[loc[p].disk].path, opS[p].id>>}
          /\ attached' = attached \cup {Len(dps) + 1}
          /\ loc' = [loc EXCEPT ![p].dp = Len(dps) + 1]
          /\ pcS' = [pcS EXCEPT ![p] = "c_insert"]
          /\ UNCHANGED <<retS, createPartitionMu>>
       \/ /\ Return(p, 0, "CreateDataPartition")
          /\ UNCHANGED <<dps, onDisk, attached>>
    /\ UNCHANGED <<disks, diskList, diskObjs, partitions, chooseIndex, stopped, opS,
                   calls, restoreRuns, picks,
                   varsStop, varsLocks, varsSender, varsRelease>>

\* CreatePartition: space.partitions[dp.ID()] = dp under partitionMu, and return.
CreateInsert(p) ==
    /\ pcS[p] = "c_insert"
    /\ partitions' = [partitions EXCEPT ![opS[p].id] = loc[p].dp]
    /\ Return(p, loc[p].dp, "none")
    /\ UNCHANGED <<disks, diskList, diskObjs, dps, chooseIndex, onDisk, attached,
                   stopped, opS, calls, restoreRuns, picks,
                   varsStop, varsLocks, varsSender, varsRelease>>

\* DeletePartition: dp := space.GetPartition(dpId)
DeleteGet(p, id) ==
    /\ pcS[p] = "idle"
    /\ calls < MaxCalls
    /\ calls' = calls + 1
    /\ opS' = [opS EXCEPT ![p] = [kind |-> "delete", id |-> id, size |-> 0,
                                  path |-> "none"]]
    /\ retS' = [retS EXCEPT ![p] = NoReturn]
    /\ IF partitions[id] = 0
       THEN UNCHANGED <<pcS, loc>>
       ELSE /\ pcS' = [pcS EXCEPT ![p] = "d_remove"]
            /\ loc' = [loc EXCEPT ![p].dp = partitions[id]]
    /\ UNCHANGED <<disks, diskList, diskObjs, partitions, dps, chooseIndex,
                   createPartitionMu, onDisk, attached, stopped, restoreRuns,
                   picks,
                   varsStop, varsLocks, varsSender, varsRelease>>

\* Mutant of DeleteRemove: the partition is left in the directory.
DeleteRemoveSkipped(p) ==
    /\ pcS[p] = "d_remove"
    /\ pcS' = [pcS EXCEPT ![p] = "d_stop"]
    /\ UNCHANGED <<disks, diskList, diskObjs, partitions, dps, chooseIndex,
                   createPartitionMu, onDisk, attached, stopped, opS, loc, retS, calls,
                   restoreRuns, picks,
                   varsStop, varsLocks, varsSender, varsRelease>>

\* DeletePartition: delete(space.partitions, dpId) under partitionMu
DeleteRemove(p) ==
    /\ pcS[p] = "d_remove"
    /\ partitions' = [partitions EXCEPT ![opS[p].id] = 0]
    /\ pcS' = [pcS EXCEPT ![p] = "d_stop"]
    /\ UNCHANGED <<disks, diskList, diskObjs, dps, chooseIndex, createPartitionMu,
                   onDisk, attached, stopped, opS, loc, retS, calls, restoreRuns,
                   picks,
                   varsStop, varsLocks, varsSender, varsRelease>>

\* DeletePartition: dp.Stop()
DeleteStop(p) ==
    /\ pcS[p] = "d_stop"
    /\ stopped' = stopped \cup {loc[p].dp}
    /\ pcS' = [pcS EXCEPT ![p] = "d_detach"]
    /\ UNCHANGED <<disks, diskList, diskObjs, partitions, dps, chooseIndex,
                   createPartitionMu, onDisk, attached, opS, loc, retS, calls,
                   restoreRuns, picks,
                   varsStop, varsLocks, varsSender, varsRelease>>

\* DeletePartition: dp.Disk().DetachDataPartition(dp)
DeleteDetach(p) ==
    /\ pcS[p] = "d_detach"
    /\ attached' = attached \ {loc[p].dp}
    /\ pcS' = [pcS EXCEPT ![p] = "d_unlink"]
    /\ UNCHANGED <<disks, diskList, diskObjs, partitions, dps, chooseIndex,
                   createPartitionMu, onDisk, stopped, opS, loc, retS, calls,
                   restoreRuns, picks,
                   varsStop, varsLocks, varsSender, varsRelease>>

\* DeletePartition: os.RemoveAll(dp.Path()), and return.
DeleteUnlink(p) ==
    /\ pcS[p] = "d_unlink"
    /\ onDisk' = onDisk \ {PathOf(loc[p].dp)}
    /\ Return(p, 0, "none")
    /\ UNCHANGED <<disks, diskList, diskObjs, partitions, dps, chooseIndex, attached,
                   stopped, opS, calls, restoreRuns, picks,
                   varsStop, varsLocks, varsSender, varsRelease>>

\* GetDisk: the disk registered for the path (0: the "not exsit" error).
GetDisk(path) == disks[path]

\* LoadDisk: GetDisk(path) and, if the path is unknown, NewDisk.
LoadGet(p, path) ==
    /\ pcS[p] = "idle"
    /\ calls < MaxCalls
    /\ calls' = calls + 1
    /\ opS' = [opS EXCEPT ![p] = [kind |-> "load", id |-> 0, size |-> 0, path |-> path]]
    /\ retS' = [retS EXCEPT ![p] = NoReturn]
    /\ IF GetDisk(path) # 0
       THEN UNCHANGED <<pcS, loc, diskObjs>>
       ELSE /\ diskObjs' = Append(diskObjs, [path |-> path])
            /\ loc' = [loc EXCEPT ![p].disk = Len(diskObjs) + 1]
            /\ pcS' = [pcS EXCEPT ![p] = "l_scan"]
    /\ UNCHANGED <<disks, diskList, partitions, dps, chooseIndex, createPartitionMu,
                   onDisk, attached, stopped, restoreRuns, picks,
                   varsStop, varsLocks, varsSender, varsRelease>>

\* Disk.RestorePartition: the partition directories found under the disk's path.
LoadScan(p) ==
    /\ pcS[p] = "l_scan"
    /\ restoreRuns' = [restoreRuns EXCEPT ![opS[p].path] = @ + 1]
    /\ loc' = [loc EXCEPT ![p].todo = {id \in PartitionIds : <<opS[p].path, id>> \in onDisk}]
    /\ pcS' = [pcS EXCEPT ![p] = "l_restore"]
    /\ UNCHANGED <<disks, diskList, diskObjs, partitions, dps, chooseIndex,
                   createPartitionMu, onDisk, attached, stopped, opS, retS, calls,
                   picks,
                   varsStop, varsLocks, varsSender, varsRelease>>

\* Disk.RestorePartition: one partition is loaded and handed to the visitor,
\* which registers it if its id is absent; or the restore is over.
LoadRestore(p) ==
    /\ pcS[p] = "l_restore"
    /\ \/ /\ loc[p].todo = {}
          /\ pcS' = [pcS EXCEPT ![p] = "l_put"]
          /\ UNCHANGED <<partitions, dps, attached, loc>>
       \/ \E id \in loc[p].todo :
            /\ dps' = Append(dps, [id |-> id, disk |-> loc[p].disk, by |-> "restore"])
            /\ attached' = attached \cup {Len(dps) + 1}
            /\ partitions' = IF partitions[id] = 0
                             THEN [partitions EXCEPT ![id] = Len(dps) + 1]
                             ELSE partitions
            /\ loc' = [loc EXCEPT ![p].todo = @ \ {id}]
            /\ pcS' = pcS
    /\ UNCHANGED <<disks, diskList, diskObjs, chooseIndex, createPartitionMu, onDisk,
                   stopped, opS, retS, calls, restoreRuns, picks,
                   varsStop, varsLocks, varsSender, varsRelease>>

\* putDisk, and LoadDisk returns.
LoadPut(p) ==
    /\ pcS[p] = "l_put"
    /\ disks' = [disks EXCEPT ![opS[p].path] = loc[p].disk]
    /\ diskList' = Append(diskList, opS[p].path)
    /\ picks' = <<>>
    /\ Return(p, 0, "none")
    /\ UNCHANGED <<diskObjs, partitions, dps, chooseIndex, onDisk, attached, stopped,
                   opS, calls, restoreRuns, varsStop, varsLocks, varsSender, varsRelease>>

\* The state of the partitions and disks, which Stop and the schedulers leave alone.
varsPlacement == <<disks, diskList, diskObjs, partitions, dps, chooseIndex,
                   createPartitionMu, onDisk, attached, stopped, pcS, opS, loc, retS,
                   calls, restoreRuns, picks>>

\* Stop is called.
StopCall(p) ==
    /\ pcStop[p] = "idle"
    /\ stops < MaxStops
    /\ stops' = stops + 1
    /\ pcStop' = [pcStop EXCEPT ![p] = "close"]
    /\ stopRet' = [stopRet EXCEPT ![p] = "none"]
    /\ UNCHANGED <<stopC, schedPc, varsPlacement, varsLocks, varsSender, varsRelease>>

\* Mutant of StopOutcome: the panic of a second close is not recovered.
StopOutcomeNoRecover(closed) == IF closed THEN "panic" ELSE "ok"

\* Stop: close(space.stopC) panics on a closed channel; the deferred recover()
\* swallows the panic.
StopOutcome(closed) == IF closed THEN "recovered" ELSE "ok"

\* Stop: close(space.stopC), and return.
StopClose(p) ==
    /\ pcStop[p] = "close"
    /\ stopRet' = [stopRet EXCEPT ![p] = StopOutcome(stopC)]
    /\ stopC' = TRUE
    /\ pcStop' = [pcStop EXCEPT ![p] = "idle"]
    /\ UNCHANGED <<schedPc, stops, varsPlacement, varsLocks, varsSender, varsRelease>>

\* A scheduler's select takes case <-ticker.C and starts its run.
SchedTick(s) ==
    /\ schedPc[s] = "select"
    /\ schedPc' = [schedPc EXCEPT ![s] = "run"]
    /\ UNCHANGED <<stopC, pcStop, stopRet, stops, varsPlacement, varsLocks, varsSender, varsRelease>>

\* updateMetrics or flushDelete returns; the scheduler is back at its select.
SchedRunDone(s) ==
    /\ schedPc[s] = "run"
    /\ schedPc' = [schedPc EXCEPT ![s] = "select"]
    /\ UNCHANGED <<stopC, pcStop, stopRet, stops, varsPlacement, varsLocks, varsSender, varsRelease>>

\* A scheduler's select takes case <-space.stopC: ticker.Stop() and return.
SchedStop(s) ==
    /\ schedPc[s] = "select"
    /\ stopC
    /\ schedPc' = [schedPc EXCEPT ![s] = "done"]
    /\ UNCHANGED <<stopC, pcStop, stopRet, stops, varsPlacement, varsLocks, varsSender, varsRelease>>

NextStop ==
    \/ \E p \in Stoppers : StopCall(p)
    \/ \E p \in Stoppers : StopClose(p)
    \/ \E s \in Schedulers : SchedTick(s)
    \/ \E s \in Schedulers : SchedRunDone(s)
    \/ \E s \in Schedulers : SchedStop(s)

\* A call of Stop in progress returns; a run in progress returns; and a select
\* with stopC closed takes that case sooner or later, however often the ticker
\* is ready too (select chooses among its ready cases at random).
FairStop ==
    /\ \A p \in Stoppers : WF_vars(StopClose(p))
    /\ \A s \in Schedulers : WF_vars(SchedRunDone(s))
    /\ \A s \in Schedulers : SF_vars(SchedStop(s))

NextSpace ==
    \/ \E p \in Callers, id \in PartitionIds, size \in PartitionSizes : CreateLock(p, id, size)
    \/ \E p \in Callers : CreateLookup(p)
    \/ \E p \in Callers : CreateFound(p)
    \/ \E p \in Callers : CreateChoose(p)
    \/ \E p \in Callers : CreateBuild(p)
    \/ \E p \in Callers : CreateInsert(p)
    \/ \E p \in Callers, id \in PartitionIds : DeleteGet(p, id)
    \/ \E p \in Callers : DeleteRemove(p)
    \/ \E p \in Callers : DeleteStop(p)
    \/ \E p \in Callers : DeleteDetach(p)
    \/ \E p \in Callers : DeleteUnlink(p)
    \/ \E p \in Callers, path \in Paths : LoadGet(p, path)
    \/ \E p \in Callers : LoadScan(p)
    \/ \E p \in Callers : LoadRestore(p)
    \/ \E p \in Callers : LoadPut(p)

(***************************************************************************)
(*               S P A C E   M A N A G E R :   T H E   L O C K S           *)
(***************************************************************************)

(* The operations of the space manager as the sequences of lock operations   *)
(* they perform.  What an operation finds in the maps decides its branch     *)
(* only, so every branch is taken as possible at every call.                 *)

Do(op, m) == <<[op |-> op, mu |-> m]>>

\* n times the sequence s.
RECURSIVE Times(_, _)
Times(s, n) == IF n = 0 THEN <<>> ELSE s \o Times(s, n - 1)

\* GetPartition
GetPartitionLocks == Do("RLock", "partitionMu") \o Do("RUnlock", "partitionMu")

\* GetDisk
GetDiskLocks == Do("RLock", "diskMu") \o Do("RUnlock", "diskMu")

\* putDisk
putDiskLocks == Do("Lock", "diskMu") \o Do("Unlock", "diskMu")

\* getMinPartitionCntDisk
getMinPartitionCntDiskLocks == Do("Lock", "diskMu") \o Do("Unlock", "diskMu")

\* LoadDisk's visitor, called by Disk.RestorePartition for each partition found.
visitorLocks == Do("Lock", "partitionMu") \o Do("Unlock", "partitionMu")

\* DeletePartition: of an absent id, and of a present one.
DeletePartitionLocks ==
    {GetPartitionLocks,
     GetPartitionLocks \o Do("Lock", "partitionMu") \o Do("Unlock", "partitionMu")}

\* LoadDisk: of a registered path, and of an unknown one with its partitions.
LoadDiskLocks ==
    {GetDiskLocks}
    \cup {GetDiskLocks \o Times(visitorLocks, k) \o putDiskLocks :
            k \in 0..Cardinality(PartitionIds)}

\* CreatePartition: the id is found; or the loop over the disks ends without a
\* disk, or CreateDataPartition fails; or the partition is inserted.  The
\* deferred unlocks run in reverse order.
CreatePartitionLocks ==
    {Do("Lock", "createPartitionMu") \o Do("Unlock", "createPartitionMu")}
    \cup {Do("Lock", "createPartitionMu") \o Times(getMinPartitionCntDiskLocks, j)
            \o Do("Unlock", "createPartitionMu") : j \in 0..Cardinality(Paths)}
    \cup {Do("Lock", "createPartitionMu") \o Times(getMinPartitionCntDiskLocks, j)
            \o Do("Lock", "partitionMu") \o Do("Unlock", "partitionMu")
            \o Do("Unlock", "createPartitionMu") : j \in 1..Cardinality(Paths)}

\* The sequences of at most n calls of a callback out of fs.
RECURSIVE Callbacks(_, _)
Callbacks(fs, n) ==
    IF n = 0 THEN {<<>>}
    ELSE {<<>>} \cup {Do("Callback", None) \o f \o rest : f \in fs, rest \in Callbacks(fs, n - 1)}

\* Mutant of RangePartitions: the read lock is released by a defer.
RangePartitionsDeferred(fs) ==
    {Do("RLock", "partitionMu") \o fcalls \o Do("RUnlock", "partitionMu") :
        fcalls \in Callbacks(fs, Cardinality(PartitionIds))}

\* RangePartitions(f): the snapshot under the read lock, then f on each handle
\* of the snapshot until f returns false.
RangePartitions(fs) ==
    {Do("RLock", "partitionMu") \o Do("RUnlock", "partitionMu") \o fcalls :
        fcalls \in Callbacks(fs, Cardinality(PartitionIds))}

\* Stats.updateMetrics: the fields are written under the lock of Stats.
StatsUpdateMetricsLocks == Do("Lock", "stats") \o Do("Unlock", "stats")

\* updateMetrics
updateMetricsLocks ==
    Do("RLock", "diskMu") \o Do("RUnlock", "diskMu") \o StatsUpdateMetricsLocks

\* A callback that takes no lock of the space manager.
NoLocks == <<>>

\* flushDelete
flushDeleteLocks == RangePartitions({NoLocks})

\* fillHeartBeatResponse, the heartbeat builder.
fillHeartBeatResponseLocks ==
    {Do("Lock", "stats") \o Do("Unlock", "stats") \o r : r \in RangePartitions({NoLocks})}

\* The calls the goroutines make: RangePartitions also with callbacks that call
\* GetPartition or DeletePartition.
LockOps ==
    CreatePartitionLocks \cup DeletePartitionLocks \cup LoadDiskLocks
    \cup {GetPartitionLocks, GetDiskLocks, updateMetricsLocks}
    \cup RangePartitions({GetPartitionLocks} \cup DeletePartitionLocks)
    \cup flushDeleteLocks \cup fillHeartBeatResponseLocks

\* The goroutine is in a call.
InCall(t) == lockOp[t] # <<>>

\* The lock operation the goroutine is at.
At(t) == Head(lockOp[t])

\* The goroutine has executed the operation it was at; after the last one its
\* call returns.
Advance(t) == lockOp' = [lockOp EXCEPT ![t] = Tail(@)]

\* A goroutine calls an operation of the space manager.
LockCall(t) ==
    /\ ~InCall(t)
    /\ \E ops \in LockOps : lockOp' = [lockOp EXCEPT ![t] = ops]
    /\ UNCHANGED <<locks, varsPlacement, varsStop, varsSender, varsRelease>>

\* sync.RWMutex.Lock, first half: the writers are taken one at a time, and the
\* writer announces itself, which keeps new readers out.
LockAnnounce(t) ==
    /\ InCall(t)
    /\ At(t).op = "Lock"
    /\ locks[At(t).mu].writer = None
    /\ locks' = [locks EXCEPT ![At(t).mu].writer = t]
    /\ UNCHANGED <<lockOp, varsPlacement, varsStop, varsSender, varsRelease>>

\* sync.RWMutex.Lock, second half: the writer waits for the readers to leave.
LockGranted(t) ==
    /\ InCall(t)
    /\ At(t).op = "Lock"
    /\ locks[At(t).mu].writer = t
    /\ ~locks[At(t).mu].granted
    /\ \A r \in Threads : locks[At(t).mu].readers[r] = 0
    /\ locks' = [locks EXCEPT ![At(t).mu].granted = TRUE]
    /\ Advance(t)
    /\ UNCHANGED <<varsPlacement, varsStop, varsSender, varsRelease>>

\* sync.RWMutex.Unlock
Unlock(t) ==
    /\ InCall(t)
    /\ At(t).op = "Unlock"
    /\ locks' = [locks EXCEPT ![At(t).mu].writer = None, ![At(t).mu].granted = FALSE]
    /\ Advance(t)
    /\ UNCHANGED <<varsPlacement, varsStop, varsSender, varsRelease>>

\* sync.RWMutex.RLock: a reader waits while a writer holds the lock or has
\* announced itself.
RLock(t) ==
    /\ InCall(t)
    /\ At(t).op = "RLock"
    /\ locks[At(t).mu].writer = None
    /\ locks' = [locks EXCEPT ![At(t).mu].readers[t] = @ + 1]
    /\ Advance(t)
    /\ UNCHANGED <<varsPlacement, varsStop, varsSender, varsRelease>>

\* sync.RWMutex.RUnlock
RUnlock(t) ==
    /\ InCall(t)
    /\ At(t).op = "RUnlock"
    /\ locks' = [locks EXCEPT ![At(t).mu].readers[t] = @ - 1]
    /\ Advance(t)
    /\ UNCHANGED <<varsPlacement, varsStop, varsSender, varsRelease>>

\* RangePartitions calls f on the next handle of its snapshot.
InvokeCallback(t) ==
    /\ InCall(t)
    /\ At(t).op = "Callback"
    /\ Advance(t)
    /\ UNCHANGED <<locks, varsPlacement, varsStop, varsSender, varsRelease>>

NextLocks ==
    \/ \E t \in Threads : LockCall(t)
    \/ \E t \in Threads : LockAnnounce(t)
    \/ \E t \in Threads : LockGranted(t)
    \/ \E t \in Threads : Unlock(t)
    \/ \E t \in Threads : RLock(t)
    \/ \E t \in Threads : RUnlock(t)
    \/ \E t \in Threads : InvokeCallback(t)

\* Every goroutine that can run does; a goroutine waiting for a lock gets it
\* if the lock is free again and again (the locks hand over to their waiters).
FairLocks ==
    \A t \in Threads :
        /\ SF_vars(LockAnnounce(t))
        /\ SF_vars(LockGranted(t))
        /\ SF_vars(RLock(t))
        /\ WF_vars(Unlock(t))
        /\ WF_vars(RUnlock(t))
        /\ WF_vars(InvokeCallback(t))

(***************************************************************************)
(*                          S P E C I F I C A T I O N S                    *)
(***************************************************************************)

\* The subsystems share nothing; each is checked with the other two at rest.
SenderAtRest == InitSender /\ live = MixedTasks

ReleaseAtRest ==
    /\ InitRelease
    /\ pkg = [IsMasterCommand |-> TRUE, isLeaderPacket |-> FALSE,
              ExtentMode |-> NormalExtentMode, ExtentID |-> 0,
              isWriteOperation |-> FALSE, IsForwardPkg |-> FALSE, HasObject |-> FALSE,
              IsErrPacket |-> FALSE]

SpaceAtRest == InitSpace /\ onDisk = {}

SenderInit == InitSender /\ live = MixedTasks /\ ReleaseAtRest /\ SpaceAtRest

NormalInit == InitSender /\ live = NormalTasks /\ ReleaseAtRest /\ SpaceAtRest

ReleaseInit == SenderAtRest /\ InitRelease /\ SpaceAtRest

SpaceInit == SenderAtRest /\ ReleaseAtRest /\ InitSpace

SpecSender == SenderInit /\ [][NextSender]_vars

SpecNormal == NormalInit /\ [][NextSender]_vars

SpecRelease == ReleaseInit /\ [][NextRelease]_vars

SpecSpace == SpaceInit /\ [][NextSpace]_vars

LiveInit == InitSender /\ live = MixedTasks /\ ReleaseAtRest /\ SpaceAtRest

SpecLive == LiveInit /\ [][NextLive]_vars /\ FairLive

BatchInit == SenderAtRest /\ ReleaseAtRest /\ SpaceAtRest

SpecBatch == BatchInit /\ [][NextBatch]_vars

StopInit == SenderAtRest /\ ReleaseAtRest /\ SpaceAtRest

SpecStop == StopInit /\ [][NextStop]_vars /\ FairStop

LocksInit == SenderAtRest /\ ReleaseAtRest /\ SpaceAtRest

SpecLocks == LocksInit /\ [][NextLocks]_vars /\ FairLocks

Spec == SpecSender

(***************************************************************************)
(*                               C L A I M S                               *)
(***************************************************************************)

\* The dispatch class of a task: heartbeat before urgent before normal.
Rank(t) == IF IsHeartbeatTask(t) THEN 0 ELSE IF IsUrgentTask(t) THEN 1 ELSE 2

\* sendAdminTask called WriteToConn for the task.
Written(out) == out \in {"writeErr", "readErr", "ok"}

\* The connection was acquired and sendAdminTask failed.
SendFailed(out) == out \in {"buildErr", "writeErr", "readErr"}

\* C1: within a tick the attempts follow the batch, and the batch is ordered
\* heartbeat, urgent, normal: when a task is attempted, every task of the batch
\* of a more urgent class stands before it, hence was attempted before it.
C1_SendOrder ==
    /\ \A k \in 1..Len(sendLog) : sendLog[k].task = tasks[k]
    /\ \A k \in 1..Len(sendLog), j \in 1..Len(tasks) :
        Rank(tasks[j]) < Rank(tasks[k]) => j < k

\* A tick wrote a heartbeat, then an urgent, then a normal task.
C1_Witness ==
    /\ Len(sendLog) = 3
    /\ Rank(sendLog[1].task) = 0 /\ Rank(sendLog[2].task) = 1 /\ Rank(sendLog[3].task) = 2
    /\ \A k \in 1..3 : Written(sendLog[k].out)

AllNormal == \A j \in 1..Len(tasks) : Rank(tasks[j]) = 2

\* C2: when GetConnect fails for the task at position k of a batch of normal
\* tasks, the batch is abandoned: that is the tick's last attempt and the only
\* one for the task, nothing is written for it or after it, its SendCount is one
\* more and its SendTime and Status are as before, and the later tasks are as before.
C2_ConnFailAbandons ==
    \A k \in 1..Len(sendLog) :
        (sendLog[k].out = "connErr" /\ AllNormal) =>
            /\ Len(sendLog) = k
            /\ pc = "sent"
            /\ Cardinality({i \in 1..Len(sendLog) : sendLog[i].task = tasks[k]}) = 1
            /\ \A i \in k..Len(sendLog) : ~Written(sendLog[i].out)
            /\ task[tasks[k]] = [pre[tasks[k]] EXCEPT !.SendCount = @ + 1]
            /\ \A j \in (k + 1)..Len(tasks) :
                /\ task[tasks[j]] = pre[tasks[j]]
                /\ \A i \in 1..Len(sendLog) : sendLog[i].task # tasks[j]

\* GetConnect failed for the first of two normal tasks.
C2_Witness ==
    /\ AllNormal
    /\ Len(tasks) = 2
    /\ Len(sendLog) = 1
    /\ sendLog[1].out = "connErr"
    /\ pc = "sent"

\* C3 as claimed: after a failed send at position k the task has SendCount one
\* more than at the tick's start, SendTime = now, Status = running, its
\* connection was put back with force_close, and every later task of the batch
\* gets its connection acquisition and its write.
C3_SendFailAsClaimed ==
    \A k \in 1..Len(sendLog) :
        SendFailed(sendLog[k].out) =>
            /\ task[tasks[k]].SendCount = pre[tasks[k]].SendCount + 1
            /\ task[tasks[k]].SendTime = sendLog[k].at
            /\ task[tasks[k]].Status = TaskRunning
            /\ sendLog[k].forceClose
            /\ pc = "sent" =>
                \A j \in (k + 1)..Len(tasks) :
                    j <= Len(sendLog) /\ Written(sendLog[j].out)

\* C3 (amended): after a failed send at position k the task has SendCount one
\* more than at the tick's start if it is a normal task and two more if it is a
\* heartbeat or urgent task (getNeedDealTask counted it once already),
\* SendTime = now, Status = running, its connection was put back with
\* force_close, and the loop goes on with the next task: only a failed
\* connection acquisition keeps a later task from its attempt.
C3_SendFailContinues ==
    \A k \in 1..Len(sendLog) :
        SendFailed(sendLog[k].out) =>
            /\ task[tasks[k]].SendCount =
                   pre[tasks[k]].SendCount + (IF Rank(tasks[k]) = 2 THEN 1 ELSE 2)
            /\ task[tasks[k]].SendTime = sendLog[k].at
            /\ task[tasks[k]].Status = TaskRunning
            /\ sendLog[k].forceClose
            /\ k < Len(tasks) => (Len(sendLog) > k \/ (pc = "send" /\ idx = k + 1))
            /\ pc = "sent" =>
                \/ Len(sendLog) = Len(tasks)
                \/ sendLog[Len(sendLog)].out = "connErr"

\* The write of a heartbeat task failed and the next task was attempted.
C3_Witness ==
    /\ Len(sendLog) >= 2
    /\ sendLog[1].out = "writeErr"
    /\ Rank(tasks[1]) = 0
    /\ task[tasks[1]].SendCount = pre[tasks[1]].SendCount + 2

\* C4: a task found timed out when a tick starts is out of the registry once
\* doDeleteTasks is through with it, before the batch is assembled, and it is in
\* no batch of that tick or of a later one.
C4_EvictedStayOut ==
    \A t \in evicted :
        /\ t \in Registered => (pc = "delete" /\ t \in delTasks)
        /\ t \notin Range(tasks)
        /\ \A k \in 1..Len(sendLog) : sendLog[k].task # t

\* A tick evicted a task and went on to send a batch.
C4_Witness ==
    /\ evicted # {}
    /\ evicted \cap Registered = {}
    /\ pc = "send"
    /\ Len(sendLog) >= 1

\* C5: the registry maps each ID to the task of the earliest PutTask since the
\* last DelTask of that ID, and to nothing if there was none: a PutTask on a
\* registered ID and a DelTask on an absent one change nothing.
C5_RegistryKeepsFirstPut ==
    \A i \in TaskIDs :
        /\ TaskMap[i] = firstPut[i]
        /\ TaskMap[i] # None => TaskID(TaskMap[i]) = i

\* A PutTask found its ID registered, and the task registered before is kept.
C5_Witness ==
    /\ TaskMap["n1"] = "n1"
    /\ dropped = {"n3"}

\* C6: once exitCh is signalled the loop makes no further attempt (no
\* GetConnect, no write) for any task.
C6_NoDispatchAfterExit == [][exitCh => Len(sendLog') <= Len(sendLog)]_vars

\* The packet is one the hook is to release.
Eligible ==
    /\ ~pkg.IsMasterCommand
    /\ pkg.isLeaderPacket
    /\ pkg.ExtentMode = TinyExtentMode
    /\ pkg.isWriteOperation
    /\ pkg.IsForwardPkg

\* C7: whatever the number of calls of the hook on an eligible packet,
\* sequential or concurrent, its extent id is enqueued once at most.
C7_ReleasedOnce == Eligible => Len(avaliCh) + Len(unavaliCh) <= 1

CreatePcs == {"c_lookup", "c_found", "c_choose", "c_build", "c_insert"}

\* What CreatePartition changes when it builds or places a partition.
Placement == <<partitions, chooseIndex, dps, attached, onDisk>>

\* C8: a CreatePartition that finds its id in the directory returns the handle
\* found there and changes neither the directory nor the cursor nor what is
\* built, attached or on disk; and CreatePartition calls run one at a time.
C8_CreateIdempotent ==
    /\ [](Cardinality({p \in Callers : pcS[p] \in CreatePcs}) <= 1)
    /\ [][\A p \in Callers :
            /\ (pcS[p] = "c_lookup" /\ pcS'[p] # "c_lookup" /\ partitions[opS[p].id] # 0) =>
                /\ pcS'[p] = "c_found"
                /\ loc'[p].dp = partitions[opS[p].id]
                /\ Placement' = Placement
            /\ pcS[p] = "c_found" /\ pcS'[p] # "c_found" =>
                /\ retS'[p].dp = loc[p].dp
                /\ retS'[p].err = "none"
                /\ Placement' = Placement]_vars

\* A CreatePartition returned the handle another call had registered.
C8_Witness ==
    \E p \in Callers :
        /\ opS[p].kind = "create"
        /\ pcS[p] = "idle"
        /\ retS[p].dp # 0
        /\ dps[retS[p].dp].by # p
        /\ partitions[opS[p].id] = retS[p].dp

\* C9: CreatePartition and DeletePartition of one id exclude each other, so
\* that no CreatePartition returns a handle a DeletePartition has stopped, and no
\* partition a CreatePartition registered is left without its directory.
C9_CreateDeleteExclusive ==
    /\ \A p \in Callers : opS[p].kind = "create" => ~retS[p].stopped
    /\ \A id \in PartitionIds :
        (partitions[id] # 0 /\ dps[partitions[id]].by \in Callers) =>
            PathOf(partitions[id]) \in onDisk

Registered_disks == {path \in Paths : disks[path] # 0}

\* C10: disks and diskList hold the same paths, each once, and no path is
\* restored twice.
C10_DisksMatchDiskList ==
    /\ Len(diskList) = Cardinality(Registered_disks)
    /\ Range(diskList) = Registered_disks
    /\ \A path \in Paths : restoreRuns[path] <= 1

\* The path of the Disk object a partition was built or restored on.
DiskPathOf(dp) == diskObjs[dps[dp].disk].path

\* C11: every partition in the directory, whether CreatePartition inserted it or
\* the restore visitor of LoadDisk registered it, has the path of its disk
\* registered in disks.
C11_PartitionDiskRegistered ==
    \A id \in PartitionIds :
        partitions[id] # 0 => disks[DiskPathOf(partitions[id])] # 0

\* DeletePartition has removed the id from the directory and has not returned.
DeleteAfterRemove == {"d_stop", "d_detach", "d_unlink"}

\* C12: DeletePartition of a present id removes it from the directory, then
\* stops the partition, then detaches it, then unlinks its path; from the removal
\* on the handle is not in the directory, and an absent id becomes present only
\* by a CreatePartition or a LoadDisk.  DeletePartition of an absent id changes
\* neither the directory nor any partition nor any disk.
C12_DeleteOrder ==
    /\ [](\A p \in Callers :
            pcS[p] \in DeleteAfterRemove => partitions[opS[p].id] # loc[p].dp)
    /\ [][\A p \in Callers :
            /\ (pcS[p] = "d_remove" /\ pcS'[p] # "d_remove") =>
                /\ pcS'[p] = "d_stop"
                /\ partitions'[opS[p].id] = 0
                /\ UNCHANGED <<stopped, attached, onDisk>>
            /\ (pcS[p] = "d_stop" /\ pcS'[p] # "d_stop") =>
                /\ pcS'[p] = "d_detach"
                /\ stopped' = stopped \cup {loc[p].dp}
                /\ UNCHANGED <<partitions, attached, onDisk>>
            /\ (pcS[p] = "d_detach" /\ pcS'[p] # "d_detach") =>
                /\ pcS'[p] = "d_unlink"
                /\ loc[p].dp \in stopped
                /\ attached' = attached \ {loc[p].dp}
                /\ UNCHANGED <<partitions, stopped, onDisk>>
            /\ (pcS[p] = "d_unlink" /\ pcS'[p] # "d_unlink") =>
                /\ pcS'[p] = "idle"
                /\ loc[p].dp \in stopped /\ loc[p].dp \notin attached
                /\ onDisk' = onDisk \ {PathOf(loc[p].dp)}
                /\ UNCHANGED <<partitions, stopped, attached>>
            /\ (pcS[p] = "idle" /\ calls' = calls + 1 /\ opS'[p].kind = "delete"
                    /\ partitions[opS'[p].id] = 0) =>
                /\ pcS'[p] = "idle"
                /\ UNCHANGED <<partitions, dps, disks, diskList, chooseIndex, onDisk,
                               attached, stopped>>]_vars
    /\ [][\A id \in PartitionIds :
            (partitions[id] = 0 /\ partitions'[id] # 0) =>
                \E p \in Callers :
                    /\ pcS[p] \in {"c_insert", "l_restore"}
                    /\ opS[p].kind \in {"create", "load"}
                    /\ loc'[p] # loc[p]]_vars

\* A DeletePartition of a present id has returned: its partition is stopped,
\* detached and unlinked, and the id is absent.
C12_Witness ==
    \E p \in Callers :
        /\ opS[p].kind = "delete"
        /\ pcS[p] = "idle"
        /\ partitions[opS[p].id] = 0
        /\ \E dp \in stopped :
            /\ dps[dp].id = opS[p].id
            /\ dp \notin attached
            /\ PathOf(dp) \notin onDisk

\* How often the selector returned the path in its calls a..b since putDisk.
PickCount(path, a, b) == Cardinality({k \in a..b : picks[k] = path})

\* C13: with the K registered disks fixed, any N consecutive calls of
\* getMinPartitionCntDisk return each registered disk floor(N/K) or ceil(N/K)
\* times, and the index the selector reads diskList at is within bounds.
C13_RoundRobinFair ==
    LET K == Cardinality(Registered_disks) IN
    /\ \A a, b \in 1..Len(picks) :
        a <= b =>
            \A path \in Registered_disks :
                LET N == b - a + 1
                    c == PickCount(path, a, b)
                IN c = N \div K \/ c = (N + K - 1) \div K
    /\ \A p \in Callers :
        (pcS[p] = "c_choose" /\ loc[p].i < K) =>
            (ChosenIndex >= 0 /\ ChosenIndex < Len(diskList))

\* The calls of getMinPartitionCntDisk of the CreatePartition in progress saw
\* one and the same diskList.
QuietChoice(p) == Len(picks) >= loc[p].i

\* C14: a CreatePartition of an absent id fails with NoDiskForCreatePartition
\* exactly if no registered disk has Available >= PartitionSize; when it fails
\* the directory is as before and nothing is built, and when it goes on to build,
\* the disk is one with Available >= PartitionSize that comes after disks that
\* do not fit.
C14_NoDiskIffNoneFits ==
    [][\A p \in Callers :
        (pcS[p] = "c_choose" /\ pcS'[p] # "c_choose" /\ QuietChoice(p)) =>
            /\ (pcS'[p] = "idle") =>
                /\ retS'[p].err = "NoDiskForCreatePartition"
                /\ retS'[p].dp = 0
                /\ \A path \in Registered_disks : Available(path) < opS[p].size
                /\ UNCHANGED <<partitions, dps, onDisk, attached>>
            /\ (pcS'[p] = "c_build") =>
                /\ Available(diskObjs[loc'[p].disk].path) >= opS[p].size
                /\ \A k \in 1..loc[p].i :
                    Available(picks[Len(picks) + 1 - k]) < opS[p].size]_vars

\* C15: no call of Stop fails, whatever their number and interleaving; once
\* stopC is closed both schedulers terminate; and a scheduler that has
\* terminated stays so and starts no further run.
C15_StopIdempotent ==
    /\ [](\A p \in Stoppers : stopRet[p] # "panic")
    /\ (stopC ~> (\A s \in Schedulers : schedPc[s] = "done"))
    /\ [][\A s \in Schedulers : schedPc[s] = "done" => schedPc'[s] = "done"]_vars

\* Two calls of Stop have returned, the second one after the recovered panic,
\* and both schedulers have terminated.
C15_Witness ==
    /\ stopRet["s1"] = "ok"
    /\ stopRet["s2"] = "recovered"
    /\ \A s \in Schedulers : schedPc[s] = "done"

\* sendAdminTask: packet.WriteToConn returned without error.
WriteSucceeded(out) == out \in {"readErr", "ok"}

\* sendAdminTask: packet.ReadFromConn was called (it is, after every write
\* that succeeded).
ReadFromConnCalled(out) == WriteSucceeded(out)

\* C16: the dispatch loop only writes: for no task it reads a reply from the
\* connection, and a task whose write succeeded has its connection put back
\* with force_close = false.
C16_FireAndForget ==
    \A k \in 1..Len(sendLog) :
        /\ ~ReadFromConnCalled(sendLog[k].out)
        /\ WriteSucceeded(sendLog[k].out) => ~sendLog[k].forceClose

\* The step is an attempt of sendTasks for the task, with this outcome.
Attempted(t, out) ==
    /\ Len(sendLog') = Len(sendLog) + 1
    /\ sendLog'[Len(sendLog')].task = t
    /\ sendLog'[Len(sendLog')].out = out

\* C17 as claimed: a task goes from pending to running only in an attempt whose
\* write succeeded, and its status is never one other than pending and running.
C17_RunningAfterWriteAsClaimed ==
    [][\A t \in Tasks :
        /\ (task[t].Status = TaskPending /\ task'[t].Status = TaskRunning) =>
            \E out \in Outcomes : Attempted(t, out) /\ WriteSucceeded(out)
        /\ task'[t].Status \in {TaskPending, TaskRunning}]_vars

\* C17 (amended): a task goes from pending to running only in an attempt of
\* sendTasks for which the connection was acquired, and every such attempt
\* leaves it running, whether building, writing or reading failed or not; an
\* attempt whose connection acquisition failed leaves the status as it was; and
\* its status is never one other than pending and running.
C17_RunningAfterAttempt ==
    [][\A t \in Tasks :
        /\ (task[t].Status = TaskPending /\ task'[t].Status = TaskRunning) =>
            \E out \in Outcomes \ {"connErr"} : Attempted(t, out)
        /\ \A out \in Outcomes \ {"connErr"} :
            Attempted(t, out) => task'[t].Status = TaskRunning
        /\ Attempted(t, "connErr") => task'[t].Status = task[t].Status
        /\ task'[t].Status \in {TaskPending, TaskRunning}]_vars

\* A pending task whose write failed is running, and one whose connection
\* acquisition failed after it is still pending.
C17_Witness ==
    /\ Len(sendLog) = 2
    /\ sendLog[1].out = "writeErr"
    /\ pre[tasks[1]].Status = TaskPending
    /\ task[tasks[1]].Status = TaskRunning
    /\ sendLog[2].out = "connErr"
    /\ task[tasks[2]].Status = TaskPending

Max(a, b) == IF a > b THEN a ELSE b

\* C18: no normal task is appended to a batch that holds more than MaxTaskLen
\* tasks, a batch never holds more than max(MaxTaskLen + 1, H + U) tasks, all
\* the ready heartbeat and urgent tasks are in the batch returned, and no task
\* is in it twice.
C18_BatchCap ==
    /\ appended.nm > 0 => lenBefore <= MaxTaskLen
    /\ BatchLen <= Max(MaxTaskLen + 1, ready.hb + ready.ur)
    /\ phase \in {"normal", "done"} => (appended.hb = ready.hb /\ appended.ur = ready.ur)
    /\ appended.hb <= ready.hb /\ appended.ur <= ready.ur /\ appended.nm <= ready.nm

\* A call of the hook reads the release flag and decides to enqueue.
DecidesToEnqueue == \E g \in Posters : pcR[g] = "idle" /\ pcR'[g] = "enqueue"

\* A call of the hook enqueues: the id goes to the unavailable queue if the
\* packet is an error packet, and to the available queue otherwise.
EnqueueByIsErr ==
    \A g \in Posters :
        (pcR[g] = "enqueue" /\ pcR'[g] = "store") =>
            IF pkg.IsErrPacket
            THEN unavaliCh' = Append(unavaliCh, pkg.ExtentID) /\ avaliCh' = avaliCh
            ELSE avaliCh' = Append(avaliCh, pkg.ExtentID) /\ unavaliCh' = unavaliCh

\* C19 as claimed: a call of the hook enqueues exactly if the packet is not a
\* master command, is a leader packet, has tiny extent mode, is a write and is
\* forwarded, and the release flag is unset; the queue goes by is_error; and a
\* call that does not enqueue changes neither queue nor the flag.
C19_EnqueueIffAsClaimed ==
    [][/\ posts' = posts + 1 =>
            /\ DecidesToEnqueue <=> (Eligible /\ IsRelase # HasReturnToStore)
            /\ UNCHANGED <<avaliCh, unavaliCh, IsRelase>>
       /\ EnqueueByIsErr]_vars

\* The conditions of cleanupPkg and releaseExtent on the packet.
EligibleWithExtent ==
    /\ Eligible
    /\ IsTinyExtent(pkg.ExtentID)
    /\ pkg.ExtentID > 0
    /\ pkg.HasObject

\* C19 (amended): a call of the hook enqueues exactly if the packet is not a
\* master command, is a leader packet, has tiny extent mode, is a write, is
\* forwarded, has a tiny extent id above 0 and carries its partition, and the
\* call reads the release flag unset; the queue goes by is_error; and a call that
\* does not enqueue changes neither queue nor the flag.
C19_EnqueueIff ==
    [][/\ posts' = posts + 1 =>
            /\ DecidesToEnqueue <=> (EligibleWithExtent /\ IsRelase # HasReturnToStore)
            /\ UNCHANGED <<avaliCh, unavaliCh, IsRelase>>
       /\ EnqueueByIsErr]_vars

\* The extent of an error packet went to the unavailable queue, and a later
\* call found the flag set.
C19_Witness ==
    /\ pkg.IsErrPacket
    /\ unavaliCh = <<pkg.ExtentID>>
    /\ avaliCh = <<>>
    /\ IsRelase = HasReturnToStore
    /\ posts >= 2
    /\ \A g \in Posters : pcR[g] = "idle"

\* The clock of the model has run out while the task, or the loop in its sleep,
\* waits for time to pass.
ClockRanOut(t) ==
    /\ now = MaxTime
    /\ \/ pc = "sleep"
       \/ task[t].Status = TaskRunning /\ ~CheckTaskNeedSend(t)

\* C20: with the loop ticking, no exit signal and no reply handler, every task
\* in the registry is removed from it in the end.
C20_EventuallyEvicted ==
    \A t \in Tasks :
        (t \in Registered) ~> (t \notin Registered \/ ClockRanOut(t))

\* The sender still refers to the task object after the step.
StillReferenced(t) == t \in Range(TaskMap') \cup delTasks' \cup Range(tasks')

\* The step is getNeedDealTask putting the task in its batch in the first or
\* the second loop, where it marks the task.
MarkedInBatch(t) ==
    /\ pc = "assemble"
    /\ t \in Range(tasks')
    /\ IsHeartbeatTask(t) \/ IsUrgentTask(t)

\* C21 as claimed: the SendCount of a task never decreases, is one more after
\* each attempt of sendTasks for the task, whatever the outcome, and is changed
\* by no other step.
C21_CountsAttemptsAsClaimed ==
    [][\A t \in Tasks :
        StillReferenced(t) =>
            /\ task'[t].SendCount >= task[t].SendCount
            /\ (\E out \in Outcomes : Attempted(t, out)) =>
                task'[t].SendCount = task[t].SendCount + 1
            /\ ~(\E out \in Outcomes : Attempted(t, out)) =>
                task'[t].SendCount = task[t].SendCount]_vars

\* C21 (amended): the SendCount of a task never decreases and is one more after
\* each attempt of sendTasks for the task, whatever the outcome; a heartbeat or
\* urgent task is counted once more when getNeedDealTask puts it in a batch,
\* whether an attempt for it follows or not; no other step changes SendCount, so
\* that a normal task keeps its SendCount in a tick that makes no attempt for it.
C21_CountsAttempts ==
    [][\A t \in Tasks :
        StillReferenced(t) =>
            /\ task'[t].SendCount >= task[t].SendCount
            /\ (\E out \in Outcomes : Attempted(t, out)) =>
                task'[t].SendCount = task[t].SendCount + 1
            /\ MarkedInBatch(t) => task'[t].SendCount = task[t].SendCount + 1
            /\ (~MarkedInBatch(t) /\ ~(\E out \in Outcomes : Attempted(t, out))) =>
                task'[t].SendCount = task[t].SendCount]_vars

\* A tick put a heartbeat and an urgent task in its batch and gave up at the
\* heartbeat task's connection failure: the heartbeat task is counted twice for
\* its one attempt, the urgent task once for none.
C21_Witness ==
    /\ pc = "sent"
    /\ Len(tasks) >= 2
    /\ Len(sendLog) = 1
    /\ sendLog[1].out = "connErr"
    /\ Rank(tasks[1]) = 0 /\ Rank(tasks[2]) = 1
    /\ task[tasks[1]].SendCount = pre[tasks[1]].SendCount + 2
    /\ task[tasks[2]].SendCount = pre[tasks[2]].SendCount + 1

\* The goroutine holds the lock, as the writer or as a reader.
Holds(t, m) ==
    \/ locks[m].writer = t /\ locks[m].granted
    \/ locks[m].readers[t] > 0

\* C22: every call into the space manager returns, whatever the calls of the
\* other goroutines, so that no goroutine waits forever for diskMu, partitionMu,
\* createPartitionMu or the lock of Stats; a goroutine that holds the lock of
\* Stats holds no other lock and does nothing but release it; and
\* RangePartitions calls its callback without holding partitionMu.
C22_LocksNeverDeadlock ==
    /\ \A t \in Threads : InCall(t) ~> ~InCall(t)
    /\ [](\A t \in Threads :
            Holds(t, "stats") =>
                /\ At(t) = [op |-> "Unlock", mu |-> "stats"]
                /\ \A m \in LockNames \ {"stats"} : ~Holds(t, m) /\ locks[m].writer # t)
    /\ [](\A t \in Threads :
            (InCall(t) /\ At(t).op = "Callback") =>
                ~Holds(t, "partitionMu") /\ locks["partitionMu"].writer # t)

\* A CreatePartition that holds createPartitionMu waits for partitionMu, which
\* the DeletePartition called by a callback of RangePartitions holds.
C22_Witness ==
    \E t, u \in Threads :
        /\ Holds(t, "createPartitionMu")
        /\ At(t) = [op |-> "Lock", mu |-> "partitionMu"]
        /\ locks["partitionMu"].writer = u
        /\ locks["partitionMu"].granted
        /\ \E k \in 1..Len(lockOp[u]) : lockOp[u][k].op = "Callback"

\* C23: a task that doDeleteTasks removes from the registry is timed out; a
\* fresh task put under the ID of a task of the snapshot, after the reply
\* handler deleted that one, stays in the registry.
C23_EvictsOnlyTimedOut ==
    [][\A i \in TaskIDs :
        (delTasks' # delTasks /\ TaskMap[i] # None /\ TaskMap'[i] = None) =>
            CheckTaskTimeOut(TaskMap[i])]_vars

\* C24: whatever the number of concurrent DeletePartition calls of one id, the
\* partition is stopped once, detached once and its path removed once: a call
\* that stops it finds it not stopped, one that detaches it finds it attached,
\* and no two calls are at the teardown of one partition.
C24_TeardownOnce ==
    [][\A p \in Callers :
        /\ (pcS[p] = "d_stop" /\ pcS'[p] = "d_detach") => loc[p].dp \notin stopped
        /\ (pcS[p] = "d_detach" /\ pcS'[p] = "d_unlink") => loc[p].dp \in attached
        /\ \A q \in Callers \ {p} :
            (pcS'[p] \in DeleteAfterRemove /\ pcS'[q] \in DeleteAfterRemove) =>
                loc'[p].dp # loc'[q].dp]_vars

====
